---- MODULE Spec2Model ----
(***************************************************************************)
(* RecaptchaSolver (src/RecaptchaSolver.py): the solveCaptcha() flow, the  *)
(* transcription step _process_audio_challenge() with its temporary files, *)
(* and the status checks is_solved(), is_detected() and get_token().       *)
(*                                                                         *)
(* The page is live and outside the program: every automation call gets    *)
(* its own observation of the page (when the element appears, whether the  *)
(* call faults), drawn nondeterministically.  What the program does with   *)
(* an observation is translated from the source.                           *)
(***************************************************************************)
EXTENDS Integers, Sequences, FiniteSets, TLC

VARIABLES
    pc,            \* position in solveCaptcha / _process_audio_challenge (source line)
    outcome,       \* how solveCaptcha() ended: NotEnded, Return(..) or Raise(..)
    frame,         \* the local variable `frame` of solveCaptcha
    audio_source,  \* the local variable `audio_source`
    text_response, \* the local variable `text_response` (a sequence of characters)
    log,           \* everything solveCaptcha did to the page and the transcriber, in order
    mp3_path,      \* _process_audio_challenge: numeric suffix of the .mp3 path (0: not chosen)
    wav_path,      \* _process_audio_challenge: numeric suffix of the .wav path (0: not chosen)
    fs,            \* the files of TEMP_DIR that exist, as <<suffix, extension>>
    tr_out,        \* the pending result of the try body of _process_audio_challenge
    rm_failed,     \* the paths whose os.remove raised OSError (swallowed)
    data,          \* for each file of fs, the solver instance whose step wrote it last
    lastCall,      \* a status check the caller makes on its own: function, observation, result
    o_pc,          \* a second solver instance on the host: position in its transcription step
    o_mp3_path,    \* the second instance's mp3_path suffix (0: not chosen)
    o_wav_path,    \* the second instance's wav_path suffix (0: not chosen)
    o_out,         \* the pending result of the second instance's try body: "none", "return", "raise"
    calls          \* the calls the caller made to get_selector and the status checks, in order

solveVars == <<pc, outcome, frame, audio_source, text_response, log>>
trVars    == <<mp3_path, wav_path, fs, tr_out, rm_failed, data>>
otherVars == <<o_pc, o_mp3_path, o_wav_path, o_out>>
vars      == <<pc, outcome, frame, audio_source, text_response, log,
               mp3_path, wav_path, fs, tr_out, rm_failed, data, lastCall,
               o_pc, o_mp3_path, o_wav_path, o_out, calls>>

----------------------------------------------------------------------------
(* Bounds of the model *)

\* random.randrange(1, 1000) draws from 1..999; the model draws from 1..MaxSuffix
MaxSuffix == 2
\* longest transcription text the recogniser returns in the model
MaxLen == 2

(* Program constants *)
TIMEOUT_STANDARD  == 7000
TIMEOUT_SHORT     == 1000
TIMEOUT_DETECTION == 50
\* the timeout a lookup without timeout= argument gets (get_token)
DEFAULT_TIMEOUT   == 30000
PAUSE_AFTER_AUDIO_CLICK == 300
PAUSE_AFTER_VERIFY      == 400

----------------------------------------------------------------------------
(* Python values *)

None          == "<None>"
ElementHandle == "<ElementHandle>"
Frame         == "<Frame>"
\* `not x` of Python for x a string or None
Falsy(x) == x = None \/ x = ""

(* Exceptions: the class, the message as the parts it is built of (an     *)
(* f-string puts its prefix before the wrapped message), and __context__: *)
(* the exception that was being handled when this one was raised, if any. *)
Exc(type, msg) == [type |-> type, msg |-> msg, context |-> <<>>]
NoExc          == Exc("-", <<>>)

\* the classes raised in the model that `except Exception` catches
ExceptionSubclasses ==
    {"Exception", "TimeoutError", "Error", "URLError", "CouldntDecodeError",
     "RequestError", "UnknownValueError", "OSError"}

TimeoutError(ms)  == Exc("TimeoutError", <<"Timeout exceeded", ToString(ms)>>)
PlaywrightError   == Exc("Error", <<"Target page, context or browser has been closed">>)

(* How a call ends *)
Return(v) == [k |-> "return", v |-> v, exc |-> NoExc]
Raise(e)  == [k |-> "raise", v |-> None, exc |-> e]
NotEnded  == [k |-> "none", v |-> None, exc |-> NoExc]

----------------------------------------------------------------------------
(* The selector table *)

Roles ==
    {"checkbox", "audio_challenge", "audio_response", "verify_button", "token",
     "iframe", "challenge_frame", "checkmark", "error_message", "audio_source"}

selectors ==
    [r \in Roles |->
        CASE r = "checkbox"        -> ".rc-anchor-content"
          [] r = "audio_challenge" -> "#recaptcha-audio-button"
          [] r = "audio_response"  -> "#audio-response"
          [] r = "verify_button"   -> "#recaptcha-verify-button"
          [] r = "token"           -> "#recaptcha-token"
          [] r = "iframe"          -> "iframe[title='reCAPTCHA']"
          [] r = "challenge_frame" -> "iframe[title*='recaptcha challenge']"
          [] r = "checkmark"       -> ".recaptcha-checkbox-checkmark"
          [] r = "error_message"   -> "text='Try again later'"
          [] r = "audio_source"    -> "#audio-source"]

\* line 41 with the key itself as the default
get_selector_Echo(selector) ==
    IF selector \in DOMAIN selectors THEN selectors[selector] ELSE selector

get_selector(selector) ==
    IF selector \in DOMAIN selectors THEN selectors[selector] ELSE ""

----------------------------------------------------------------------------
(* The page automation calls, each on one observation of the page *)

\* when the looked-up element appears, in ms after the lookup starts: at once,
\* just after one of the timeouts, or after the longest of them
Delays ==
    {0, TIMEOUT_DETECTION + 1, TIMEOUT_SHORT + 1, DEFAULT_TIMEOUT + 1}

\* an observation of a lookup: when the element appears, and whether the call
\* faults (the page is closed) or resolves to None
LookupObs == [at : Delays, fault : {"none", "null", "error"}]
\* an observation of content_frame(): the frame, None, or a fault
FrameObs  == {"frame", "null", "error"}
\* an observation of get_attribute(): absent, empty, set, or a fault
AttrObs   == {"absent", "empty", "set", "error"}
\* an observation of query_selector(): the element, None, or a fault
QueryObs  == {"found", "null", "error"}
\* an observation of is_visible(): visible, hidden, or a fault
VisibleObs == {"visible", "hidden", "error"}
\* an observation of click() or fill(): done, the target never actionable, or a fault
ActObs    == {"ok", "timeout", "error"}
\* an observation of wait_for_timeout(): done, or a fault
PauseObs  == {"ok", "error"}

wait_for_selector(o, timeout) ==
    IF o.fault = "error" THEN Raise(PlaywrightError)
    ELSE IF o.at > timeout THEN Raise(TimeoutError(timeout))
    ELSE IF o.fault = "null" THEN Return(None)
    ELSE Return(ElementHandle)

content_frame(o) ==
    CASE o = "frame" -> Return(Frame)
      [] o = "null"  -> Return(None)
      [] o = "error" -> Raise(PlaywrightError)

\* the value of a set attribute is AttrValue
AttrValue == "v"
get_attribute(o) ==
    CASE o = "absent" -> Return(None)
      [] o = "empty"  -> Return("")
      [] o = "set"    -> Return(AttrValue)
      [] o = "error"  -> Raise(PlaywrightError)

query_selector(o) ==
    CASE o = "found" -> Return(ElementHandle)
      [] o = "null"  -> Return(None)
      [] o = "error" -> Raise(PlaywrightError)

is_visible(o) ==
    CASE o = "visible" -> Return("True")
      [] o = "hidden"  -> Return("False")
      [] o = "error"   -> Raise(PlaywrightError)

\* click(), fill() and wait_for_timeout() return nothing, or raise
page_action(o) ==
    CASE o = "ok"      -> Return(None)
      [] o = "timeout" -> Raise(TimeoutError(DEFAULT_TIMEOUT))
      [] o = "error"   -> Raise(PlaywrightError)

----------------------------------------------------------------------------
(* The status checks.  Each is a try body and the handler around it. *)

\* a handler that catches lookup timeouts only
ExceptException_TimeoutOnly(r, v) ==
    IF r.k = "raise" /\ r.exc.type = "TimeoutError" THEN Return(v) ELSE r

\* `except Exception: return v`
ExceptException(r, v) ==
    IF r.k = "raise" /\ r.exc.type \in ExceptionSubclasses THEN Return(v) ELSE r

SolvedObs   == [iframe : LookupObs, content : FrameObs, checkmark : LookupObs, style : AttrObs]
DetectedObs == [frame : LookupObs, content : FrameObs, query : QueryObs, visible : VisibleObs]
TokenObs    == [frame : LookupObs, content : FrameObs, token : LookupObs, value : AttrObs]

\* the try body of is_solved with line 152 testing the checkmark alone
is_solved_try_NoStyle(o) ==
    LET iframe == wait_for_selector(o.iframe, TIMEOUT_SHORT) IN
    IF iframe.k = "raise" THEN iframe
    ELSE IF iframe.v = None THEN Return("False")
    ELSE
    LET fr == content_frame(o.content) IN
    IF fr.k = "raise" THEN fr
    ELSE IF fr.v = None THEN Return("False")
    ELSE
    LET checkmark == wait_for_selector(o.checkmark, TIMEOUT_SHORT) IN
    IF checkmark.k = "raise" THEN checkmark
    ELSE IF checkmark.v = None THEN Return("False")
    ELSE Return("True")

\* lines 143-152: the try body of is_solved
is_solved_try(o) ==
    LET iframe == wait_for_selector(o.iframe, TIMEOUT_SHORT) IN
    IF iframe.k = "raise" THEN iframe
    ELSE IF iframe.v = None THEN Return("False")
    ELSE
    LET fr == content_frame(o.content) IN
    IF fr.k = "raise" THEN fr
    ELSE IF fr.v = None THEN Return("False")
    ELSE
    LET checkmark == wait_for_selector(o.checkmark, TIMEOUT_SHORT) IN
    IF checkmark.k = "raise" THEN checkmark
    ELSE IF checkmark.v = None THEN Return("False")
    ELSE
    LET style == get_attribute(o.style) IN
    IF style.k = "raise" THEN style
    ELSE IF style.v # None THEN Return("True") ELSE Return("False")

is_solved(o) == ExceptException(is_solved_try(o), "False")

\* the try body of is_detected with line 168 testing the element alone
is_detected_try_NoVisibility(o) ==
    LET challenge_frame == wait_for_selector(o.frame, TIMEOUT_DETECTION) IN
    IF challenge_frame.k = "raise" THEN challenge_frame
    ELSE IF challenge_frame.v = None THEN Return("False")
    ELSE
    LET fr == content_frame(o.content) IN
    IF fr.k = "raise" THEN fr
    ELSE IF fr.v = None THEN Return("False")
    ELSE
    LET error_message == query_selector(o.query) IN
    IF error_message.k = "raise" THEN error_message
    ELSE IF error_message.v = None THEN Return("False")
    ELSE Return("True")

\* lines 159-168: the try body of is_detected
is_detected_try(o) ==
    LET challenge_frame == wait_for_selector(o.frame, TIMEOUT_DETECTION) IN
    IF challenge_frame.k = "raise" THEN challenge_frame
    ELSE IF challenge_frame.v = None THEN Return("False")
    ELSE
    LET fr == content_frame(o.content) IN
    IF fr.k = "raise" THEN fr
    ELSE IF fr.v = None THEN Return("False")
    ELSE
    LET error_message == query_selector(o.query) IN
    IF error_message.k = "raise" THEN error_message
    ELSE IF error_message.v = None THEN Return("False")
    ELSE is_visible(o.visible)

is_detected(o) == ExceptException(is_detected_try(o), "False")

\* lines 175-184: the try body of get_token
get_token_try(o) ==
    LET challenge_frame == wait_for_selector(o.frame, DEFAULT_TIMEOUT) IN
    IF challenge_frame.k = "raise" THEN challenge_frame
    ELSE IF challenge_frame.v = None THEN Return(None)
    ELSE
    LET fr == content_frame(o.content) IN
    IF fr.k = "raise" THEN fr
    ELSE IF fr.v = None THEN Return(None)
    ELSE
    LET token_element == wait_for_selector(o.token, DEFAULT_TIMEOUT) IN
    IF token_element.k = "raise" THEN token_element
    ELSE IF token_element.v = None THEN Return(None)
    ELSE get_attribute(o.value)

get_token(o) == ExceptException(get_token_try(o), None)

----------------------------------------------------------------------------
(* Texts: what the recogniser returns, and str.lower() *)

Chars == {"A", "a", "7"}
Texts == UNION {[1..n -> Chars] : n \in 0..MaxLen}

lower_char(c) == IF c = "A" THEN "a" ELSE c
lower(t) == [i \in 1..Len(t) |-> lower_char(t[i])]

\* the src attribute of the audio element, when set
AudioUrl == "https://www.google.com/recaptcha/api2/payload/audio.mp3"

----------------------------------------------------------------------------
(* What solveCaptcha does, as it goes: one entry per call it makes *)

\* ok: the call returned; err: the class of the exception it raised ("-": none)
Ev(op, sel, ctx, ms, text, ret, r) ==
    [op |-> op, sel |-> sel, ctx |-> ctx, ms |-> ms, text |-> text, ret |-> ret,
     ok |-> r.k = "return", err |-> r.exc.type]

Lookup(role, ctx, ms, r) ==
    Ev("wait_for_selector", get_selector(role), ctx, ms, <<>>, r.v, r)
Enter(ctx, r)            == Ev("content_frame", "", ctx, 0, <<>>, r.v, r)
Click(role, ctx, r)      == Ev("click", get_selector(role), ctx, 0, <<>>, "", r)
Fill(role, ctx, text, r) == Ev("fill", get_selector(role), ctx, 0, text, "", r)
Pause(ms, r)             == Ev("wait_for_timeout", "", "page", ms, <<>>, "", r)
Check(fn, r)             == Ev(fn, "", "page", 0, <<>>, r.v, r)
ReadAttr(name, ctx, r)   == Ev("get_attribute", name, ctx, 0, <<>>, r.v, r)
Transcribe(url)          == Ev("_process_audio_challenge", url, "", 0, <<>>, "", Return(None))
Transcribed(r)           == Ev("transcribed", "", "", 0, r.text, "", r)

(* The pending result of the transcription's try body *)
TrReturn(t) == [k |-> "return", text |-> t, exc |-> NoExc]
TrRaise(e)  == [k |-> "raise", text |-> <<>>, exc |-> e]
TrNone      == [k |-> "none", text |-> <<>>, exc |-> NoExc]

----------------------------------------------------------------------------
Init ==
    /\ pc = "L50"
    /\ outcome = NotEnded
    /\ frame = None
    /\ audio_source = None
    /\ text_response = <<>>
    /\ log = <<>>
    /\ mp3_path = 0
    /\ wav_path = 0
    /\ fs = {}
    /\ tr_out = TrNone
    /\ rm_failed = {}
    /\ data = <<>>
    /\ o_pc = "idle"
    /\ o_mp3_path = 0
    /\ o_wav_path = 0
    /\ o_out = "none"
    /\ calls = <<>>
    /\ lastCall = [fn |-> "none", obs |-> <<>>, res |-> NotEnded]

----------------------------------------------------------------------------
(* solveCaptcha, one action per call it awaits *)

\* the call ended solveCaptcha: a return, or an exception that leaves it
Ends(r) ==
    /\ pc' = "done"
    /\ outcome' = r

\* an exception `e` raised at top level of solveCaptcha (lines 50-83) leaves it as it is
Propagate(e) == Ends(Raise(e))

\* the handler of line 106 with the caught message left out of the new one
ExceptWrap_NoMessage(e) ==
    IF e.type \in ExceptionSubclasses
    THEN [type |-> "Exception", msg |-> <<"Audio challenge failed: ">>, context |-> <<e>>]
    ELSE e

\* lines 106-107: an exception raised inside the try block is caught when its
\* class is an Exception, and raised again under the prefix
ExceptWrap(e) ==
    IF e.type \in ExceptionSubclasses
    THEN [type |-> "Exception", msg |-> <<"Audio challenge failed: ">> \o e.msg,
          context |-> <<e>>]
    ELSE e

RaiseInTry(e) == Ends(Raise(ExceptWrap(e)))

\* line 50-53
Solve_L50 ==
    /\ pc = "L50"
    /\ \E o \in LookupObs :
        LET iframe_handle == wait_for_selector(o, TIMEOUT_STANDARD) IN
        /\ log' = Append(log, Lookup("iframe", "page", TIMEOUT_STANDARD, iframe_handle))
        /\ IF iframe_handle.k = "raise" THEN Propagate(iframe_handle.exc)
           ELSE IF iframe_handle.v = None
           THEN Propagate(Exc("Exception", <<"Cannot find reCAPTCHA iframe">>))
           ELSE pc' = "L55" /\ outcome' = outcome
    /\ UNCHANGED <<frame, audio_source, text_response, trVars, lastCall, otherVars, calls>>

\* line 55-57
Solve_L55 ==
    /\ pc = "L55"
    /\ \E o \in FrameObs :
        LET fr == content_frame(o) IN
        /\ log' = Append(log, Enter("outer", fr))
        /\ IF fr.k = "raise" THEN Propagate(fr.exc) /\ frame' = frame
           ELSE IF fr.v = None
           THEN Propagate(Exc("Exception", <<"Cannot access iframe content">>)) /\ frame' = None
           ELSE pc' = "L60" /\ outcome' = outcome /\ frame' = "outer"
    /\ UNCHANGED <<audio_source, text_response, trVars, lastCall, otherVars, calls>>

\* line 60: the handle is not kept
Solve_L60 ==
    /\ pc = "L60"
    /\ \E o \in LookupObs :
        LET r == wait_for_selector(o, TIMEOUT_STANDARD) IN
        /\ log' = Append(log, Lookup("checkbox", frame, TIMEOUT_STANDARD, r))
        /\ IF r.k = "raise" THEN Propagate(r.exc)
           ELSE pc' = "L61" /\ outcome' = outcome
    /\ UNCHANGED <<frame, audio_source, text_response, trVars, lastCall, otherVars, calls>>

\* line 61 with a failed click tried again from the lookup of line 60
Solve_L61_Retry ==
    /\ pc = "L61"
    /\ \E o \in ActObs :
        LET r == page_action(o) IN
        /\ log' = Append(log, Click("checkbox", frame, r))
        /\ IF r.k = "raise" THEN pc' = "L60" /\ outcome' = outcome
           ELSE pc' = "L64" /\ outcome' = outcome
    /\ UNCHANGED <<frame, audio_source, text_response, trVars, lastCall, otherVars, calls>>

\* line 61
Solve_L61 ==
    /\ pc = "L61"
    /\ \E o \in ActObs :
        LET r == page_action(o) IN
        /\ log' = Append(log, Click("checkbox", frame, r))
        /\ IF r.k = "raise" THEN Propagate(r.exc)
           ELSE pc' = "L64" /\ outcome' = outcome
    /\ UNCHANGED <<frame, audio_source, text_response, trVars, lastCall, otherVars, calls>>

\* line 64 with the test negated
Solve_L64_Negated ==
    /\ pc = "L64"
    /\ \E o \in SolvedObs :
        LET r == is_solved(o) IN
        /\ log' = Append(log, Check("is_solved", r))
        /\ IF r.k = "raise" THEN Propagate(r.exc)
           ELSE IF r.v # "True" THEN Ends(Return(None))
           ELSE pc' = "L68" /\ outcome' = outcome
    /\ UNCHANGED <<frame, audio_source, text_response, trVars, lastCall, otherVars, calls>>

\* line 64 with the early return left out
Solve_L64_NoReturn ==
    /\ pc = "L64"
    /\ \E o \in SolvedObs :
        LET r == is_solved(o) IN
        /\ log' = Append(log, Check("is_solved", r))
        /\ IF r.k = "raise" THEN Propagate(r.exc)
           ELSE pc' = "L68" /\ outcome' = outcome
    /\ UNCHANGED <<frame, audio_source, text_response, trVars, lastCall, otherVars, calls>>

\* line 64-65
Solve_L64 ==
    /\ pc = "L64"
    /\ \E o \in SolvedObs :
        LET r == is_solved(o) IN
        /\ log' = Append(log, Check("is_solved", r))
        /\ IF r.k = "raise" THEN Propagate(r.exc)
           ELSE IF r.v = "True" THEN Ends(Return(None))
           ELSE pc' = "L68" /\ outcome' = outcome
    /\ UNCHANGED <<frame, audio_source, text_response, trVars, lastCall, otherVars, calls>>

\* line 68 without the test of line 70
Solve_L68_NoTest ==
    /\ pc = "L68"
    /\ \E o \in LookupObs :
        LET challenge_frame == wait_for_selector(o, TIMEOUT_STANDARD) IN
        /\ log' = Append(log, Lookup("challenge_frame", "page", TIMEOUT_STANDARD, challenge_frame))
        /\ IF challenge_frame.k = "raise" THEN Propagate(challenge_frame.exc)
           ELSE pc' = "L73" /\ outcome' = outcome
    /\ UNCHANGED <<frame, audio_source, text_response, trVars, lastCall, otherVars, calls>>

\* line 68-71
Solve_L68 ==
    /\ pc = "L68"
    /\ \E o \in LookupObs :
        LET challenge_frame == wait_for_selector(o, TIMEOUT_STANDARD) IN
        /\ log' = Append(log, Lookup("challenge_frame", "page", TIMEOUT_STANDARD, challenge_frame))
        /\ IF challenge_frame.k = "raise" THEN Propagate(challenge_frame.exc)
           ELSE IF challenge_frame.v = None
           THEN Propagate(Exc("Exception", <<"Cannot find challenge iframe">>))
           ELSE pc' = "L73" /\ outcome' = outcome
    /\ UNCHANGED <<frame, audio_source, text_response, trVars, lastCall, otherVars, calls>>

\* line 73 with the frame entered but `frame` left as it was
Solve_L73_KeepFrame ==
    /\ pc = "L73"
    /\ \E o \in FrameObs :
        LET fr == content_frame(o) IN
        /\ log' = Append(log, Enter("challenge", fr))
        /\ IF fr.k = "raise" THEN Propagate(fr.exc) /\ frame' = frame
           ELSE IF fr.v = None
           THEN Propagate(Exc("Exception", <<"Cannot access challenge iframe">>)) /\ frame' = frame
           ELSE pc' = "L78" /\ outcome' = outcome /\ frame' = frame
    /\ UNCHANGED <<audio_source, text_response, trVars, lastCall, otherVars, calls>>

\* line 73-75: `frame` is assigned before it is tested
Solve_L73 ==
    /\ pc = "L73"
    /\ \E o \in FrameObs :
        LET fr == content_frame(o) IN
        /\ log' = Append(log, Enter("challenge", fr))
        /\ IF fr.k = "raise" THEN Propagate(fr.exc) /\ frame' = frame
           ELSE IF fr.v = None
           THEN Propagate(Exc("Exception", <<"Cannot access challenge iframe">>)) /\ frame' = None
           ELSE pc' = "L78" /\ outcome' = outcome /\ frame' = "challenge"
    /\ UNCHANGED <<audio_source, text_response, trVars, lastCall, otherVars, calls>>

\* line 78
Solve_L78 ==
    /\ pc = "L78"
    /\ \E o \in LookupObs :
        LET r == wait_for_selector(o, TIMEOUT_STANDARD) IN
        /\ log' = Append(log, Lookup("audio_challenge", frame, TIMEOUT_STANDARD, r))
        /\ IF r.k = "raise" THEN Propagate(r.exc)
           ELSE pc' = "L79" /\ outcome' = outcome
    /\ UNCHANGED <<frame, audio_source, text_response, trVars, lastCall, otherVars, calls>>

\* line 79
Solve_L79 ==
    /\ pc = "L79"
    /\ \E o \in ActObs :
        LET r == page_action(o) IN
        /\ log' = Append(log, Click("audio_challenge", frame, r))
        /\ IF r.k = "raise" THEN Propagate(r.exc)
           ELSE pc' = "L80" /\ outcome' = outcome
    /\ UNCHANGED <<frame, audio_source, text_response, trVars, lastCall, otherVars, calls>>

\* line 80
Solve_L80 ==
    /\ pc = "L80"
    /\ \E o \in PauseObs :
        LET r == page_action(o) IN
        /\ log' = Append(log, Pause(PAUSE_AFTER_AUDIO_CLICK, r))
        /\ IF r.k = "raise" THEN Propagate(r.exc)
           ELSE pc' = "L82" /\ outcome' = outcome
    /\ UNCHANGED <<frame, audio_source, text_response, trVars, lastCall, otherVars, calls>>

\* line 82-83 moved inside the try block of line 86
Solve_L82_InTry ==
    /\ pc = "L82"
    /\ \E o \in DetectedObs :
        LET r == is_detected(o) IN
        /\ log' = Append(log, Check("is_detected", r))
        /\ IF r.k = "raise" THEN RaiseInTry(r.exc)
           ELSE IF r.v = "True"
           THEN RaiseInTry(Exc("Exception", <<"Captcha detected bot behavior">>))
           ELSE pc' = "L87" /\ outcome' = outcome
    /\ UNCHANGED <<frame, audio_source, text_response, trVars, lastCall, otherVars, calls>>

\* line 82-83
Solve_L82 ==
    /\ pc = "L82"
    /\ \E o \in DetectedObs :
        LET r == is_detected(o) IN
        /\ log' = Append(log, Check("is_detected", r))
        /\ IF r.k = "raise" THEN Propagate(r.exc)
           ELSE IF r.v = "True"
           THEN Propagate(Exc("Exception", <<"Captcha detected bot behavior">>))
           ELSE pc' = "L87" /\ outcome' = outcome
    /\ UNCHANGED <<frame, audio_source, text_response, trVars, lastCall, otherVars, calls>>

\* line 87-92, inside the try block
Solve_L87 ==
    /\ pc = "L87"
    /\ \E o \in LookupObs :
        LET audio_element == wait_for_selector(o, TIMEOUT_STANDARD) IN
        /\ log' = Append(log, Lookup("audio_source", frame, TIMEOUT_STANDARD, audio_element))
        /\ IF audio_element.k = "raise" THEN RaiseInTry(audio_element.exc)
           ELSE IF audio_element.v = None
           THEN RaiseInTry(Exc("Exception", <<"Cannot find audio source element">>))
           ELSE pc' = "L94" /\ outcome' = outcome
    /\ UNCHANGED <<frame, audio_source, text_response, trVars, lastCall, otherVars, calls>>

\* the src attribute read at line 94
src_attribute(o) ==
    LET r == get_attribute(o) IN
    IF r.k = "return" /\ r.v = AttrValue THEN Return(AudioUrl) ELSE r

\* line 95 testing `is None` instead of `not audio_source`
Solve_L94_NoneOnly ==
    /\ pc = "L94"
    /\ \E o \in AttrObs :
        LET r == src_attribute(o) IN
        /\ log' = Append(log, ReadAttr("src", frame, r))
        /\ IF r.k = "raise" THEN RaiseInTry(r.exc) /\ audio_source' = audio_source
           ELSE IF r.v = None
           THEN RaiseInTry(Exc("Exception", <<"Audio source URL not found">>))
                /\ audio_source' = r.v
           ELSE pc' = "L98" /\ outcome' = outcome /\ audio_source' = r.v
    /\ UNCHANGED <<frame, text_response, trVars, lastCall, otherVars, calls>>

\* line 94-96, inside the try block
Solve_L94 ==
    /\ pc = "L94"
    /\ \E o \in AttrObs :
        LET r == src_attribute(o) IN
        /\ log' = Append(log, ReadAttr("src", frame, r))
        /\ IF r.k = "raise" THEN RaiseInTry(r.exc) /\ audio_source' = audio_source
           ELSE IF Falsy(r.v)
           THEN RaiseInTry(Exc("Exception", <<"Audio source URL not found">>))
                /\ audio_source' = r.v
           ELSE pc' = "L98" /\ outcome' = outcome /\ audio_source' = r.v
    /\ UNCHANGED <<frame, text_response, trVars, lastCall, otherVars, calls>>

----------------------------------------------------------------------------
(* _process_audio_challenge: the transcription step and its temporary files *)

Mp3(n) == <<n, "mp3">>
Wav(n) == <<n, "wav">>

\* an observation of a call that writes a file: written, failed before the file
\* was created, or failed with the file left partly written
WriteObs == {"ok", "fail_nofile", "fail_partial"}
\* an observation of a network call made without a timeout: as a file write or
\* a recognition, or the peer never answers and the call never returns
StallObs == {"stall"}
\* an observation of a call that only reads
ReadObs  == {"ok", "fail"}

\* who wrote each file, after a step that wrote nothing left the files S
Stored(d, S) == [q \in S |-> d[q]]
\* who wrote each file, after instance `me` wrote (or truncated) the file p
StoredAfterWrite(d, S, p, me) == [q \in S |-> IF q = p THEN me ELSE d[q]]
\* open(path) of a file that is not there
FileNotFound == Exc("OSError", <<"No such file or directory">>)
\* an observation of os.remove: removed, or OSError
RemoveObs == {"ok", "oserror"}

\* the try body raised and the finally block is skipped
TrFails_NoFinally(e) ==
    /\ tr_out' = TrRaise(e)
    /\ pc' = "L98_back"

\* the try body raised: control goes to the finally block (line 132)
TrFails(e) ==
    /\ tr_out' = TrRaise(e)
    /\ pc' = "L133_mp3"

\* line 98 calls, lines 118-119 choose the two paths
Tr_L118 ==
    /\ pc = "L98"
    /\ \E m \in 1..MaxSuffix, w \in 1..MaxSuffix :
        /\ mp3_path' = m
        /\ wav_path' = w
    /\ log' = Append(log, Transcribe(audio_source))
    /\ pc' = "L122"
    /\ UNCHANGED <<outcome, frame, audio_source, text_response, fs, data, tr_out, rm_failed, lastCall, otherVars, calls>>

\* line 122: urllib.request.urlretrieve(audio_url, mp3_path)
\* urlopen() gets no timeout, so the call may never return
Tr_L122 ==
    /\ pc = "L122"
    /\ \E o \in WriteObs \cup StallObs :
        /\ fs' = IF o \in {"fail_nofile", "stall"} THEN fs ELSE fs \cup {Mp3(mp3_path)}
        /\ data' = IF o \in {"fail_nofile", "stall"} THEN data
                   ELSE StoredAfterWrite(data, fs', Mp3(mp3_path), 1)
        /\ IF o = "ok" THEN pc' = "L123" /\ tr_out' = tr_out
           ELSE IF o = "stall" THEN pc' = "L122_blocked" /\ tr_out' = tr_out
           ELSE TrFails(Exc("URLError", <<"urlopen error">>))
    /\ UNCHANGED <<outcome, frame, audio_source, text_response, log, mp3_path, wav_path,
                   rm_failed, lastCall, otherVars, calls>>

\* line 123: pydub.AudioSegment.from_mp3(mp3_path)
Tr_L123 ==
    /\ pc = "L123"
    /\ \E o \in ReadObs :
        IF Mp3(mp3_path) \notin fs THEN TrFails(FileNotFound)
        ELSE IF o = "ok" THEN pc' = "L124" /\ tr_out' = tr_out
        ELSE TrFails(Exc("CouldntDecodeError", <<"Decoding failed">>))
    /\ UNCHANGED <<outcome, frame, audio_source, text_response, log, mp3_path, wav_path,
                   fs, data, rm_failed, lastCall, otherVars, calls>>

\* line 124: sound.export(wav_path, format="wav")
Tr_L124 ==
    /\ pc = "L124"
    /\ \E o \in WriteObs :
        /\ fs' = IF o = "fail_nofile" THEN fs ELSE fs \cup {Wav(wav_path)}
        /\ data' = IF o = "fail_nofile" THEN data
                   ELSE StoredAfterWrite(data, fs', Wav(wav_path), 1)
        /\ IF o = "ok" THEN pc' = "L127" /\ tr_out' = tr_out
           ELSE TrFails(Exc("OSError", <<"export failed">>))
    /\ UNCHANGED <<outcome, frame, audio_source, text_response, log, mp3_path, wav_path,
                   rm_failed, lastCall, otherVars, calls>>

\* lines 126-128: the recogniser reads the waveform file
Tr_L127 ==
    /\ pc = "L127"
    /\ \E o \in ReadObs :
        IF Wav(wav_path) \notin fs THEN TrFails(FileNotFound)
        ELSE IF o = "ok" THEN pc' = "L130" /\ tr_out' = tr_out
        ELSE TrFails(Exc("OSError", <<"Audio file could not be read">>))
    /\ UNCHANGED <<outcome, frame, audio_source, text_response, log, mp3_path, wav_path,
                   fs, data, rm_failed, lastCall, otherVars, calls>>

\* what recognize_google can do: return a text, or raise
RecognizeObs ==
    {TrReturn(t) : t \in Texts}
    \cup {TrRaise(Exc("RequestError", <<"recognition request failed">>)),
          TrRaise(Exc("UnknownValueError", <<>>))}

\* line 130: return recognizer.recognize_google(audio); the finally block runs
\* first.  The request gets no timeout (operation_timeout is not set), so the
\* call may never return.
Tr_L130 ==
    /\ pc = "L130"
    /\ \/ \E r \in RecognizeObs : tr_out' = r /\ pc' = "L133_mp3"
       \/ \E o \in StallObs : tr_out' = tr_out /\ pc' = "L130_blocked"
    /\ UNCHANGED <<outcome, frame, audio_source, text_response, log, mp3_path, wav_path,
                   fs, data, rm_failed, lastCall, otherVars, calls>>

\* the loop body with the test of line 134 negated: nothing is removed
Cleanup_NotExists(path, o) ==
    IF path \notin fs
    THEN IF o = "ok"
         THEN [fs |-> fs \ {path}, rm_failed |-> rm_failed]
         ELSE [fs |-> fs, rm_failed |-> rm_failed]
    ELSE [fs |-> fs, rm_failed |-> rm_failed]

\* lines 134-138, for one path of the loop: fs and rm_failed after it
Cleanup(path, o) ==
    IF path \in fs
    THEN IF o = "ok"
         THEN [fs |-> fs \ {path}, rm_failed |-> rm_failed]
         ELSE [fs |-> fs, rm_failed |-> rm_failed \cup {path}]
    ELSE [fs |-> fs, rm_failed |-> rm_failed]

\* line 133, first path of the loop
Tr_L133_mp3 ==
    /\ pc = "L133_mp3"
    /\ \E o \in RemoveObs :
        LET c == Cleanup(Mp3(mp3_path), o) IN
        /\ fs' = c.fs
        /\ data' = Stored(data, c.fs)
        /\ rm_failed' = c.rm_failed
    /\ pc' = "L133_wav"
    /\ UNCHANGED <<outcome, frame, audio_source, text_response, log, mp3_path, wav_path,
                   tr_out, lastCall, otherVars, calls>>

\* line 133, second path of the loop
Tr_L133_wav ==
    /\ pc = "L133_wav"
    /\ \E o \in RemoveObs :
        LET c == Cleanup(Wav(wav_path), o) IN
        /\ fs' = c.fs
        /\ data' = Stored(data, c.fs)
        /\ rm_failed' = c.rm_failed
    /\ pc' = "L98_back"
    /\ UNCHANGED <<outcome, frame, audio_source, text_response, log, mp3_path, wav_path,
                   tr_out, lastCall, otherVars, calls>>

----------------------------------------------------------------------------
(* solveCaptcha, after the transcription step *)

\* line 98: the step is over and its locals are gone; its text is assigned, or
\* its exception is caught at line 106
Solve_L98 ==
    /\ pc = "L98_back"
    /\ log' = Append(log, Transcribed(tr_out))
    /\ IF tr_out.k = "raise" THEN RaiseInTry(tr_out.exc) /\ text_response' = text_response
       ELSE pc' = "L99" /\ outcome' = outcome /\ text_response' = tr_out.text
    /\ mp3_path' = 0
    /\ wav_path' = 0
    /\ tr_out' = TrNone
    /\ UNCHANGED <<frame, audio_source, fs, data, rm_failed, lastCall, otherVars, calls>>

\* line 99 without .lower()
Solve_L99_NoLower ==
    /\ pc = "L99"
    /\ \E o \in ActObs :
        LET r == page_action(o) IN
        /\ log' = Append(log, Fill("audio_response", frame, text_response, r))
        /\ IF r.k = "raise" THEN RaiseInTry(r.exc)
           ELSE pc' = "L100" /\ outcome' = outcome
    /\ UNCHANGED <<frame, audio_source, text_response, trVars, lastCall, otherVars, calls>>

\* line 99
Solve_L99 ==
    /\ pc = "L99"
    /\ \E o \in ActObs :
        LET r == page_action(o) IN
        /\ log' = Append(log, Fill("audio_response", frame, lower(text_response), r))
        /\ IF r.k = "raise" THEN RaiseInTry(r.exc)
           ELSE pc' = "L100" /\ outcome' = outcome
    /\ UNCHANGED <<frame, audio_source, text_response, trVars, lastCall, otherVars, calls>>

\* line 100
Solve_L100 ==
    /\ pc = "L100"
    /\ \E o \in ActObs :
        LET r == page_action(o) IN
        /\ log' = Append(log, Click("verify_button", frame, r))
        /\ IF r.k = "raise" THEN RaiseInTry(r.exc)
           ELSE pc' = "L101" /\ outcome' = outcome
    /\ UNCHANGED <<frame, audio_source, text_response, trVars, lastCall, otherVars, calls>>

\* line 101
Solve_L101 ==
    /\ pc = "L101"
    /\ \E o \in PauseObs :
        LET r == page_action(o) IN
        /\ log' = Append(log, Pause(PAUSE_AFTER_VERIFY, r))
        /\ IF r.k = "raise" THEN RaiseInTry(r.exc)
           ELSE pc' = "L103" /\ outcome' = outcome
    /\ UNCHANGED <<frame, audio_source, text_response, trVars, lastCall, otherVars, calls>>

\* line 103 without the raise: the function falls off its end either way
Solve_L103_NoRaise ==
    /\ pc = "L103"
    /\ \E o \in SolvedObs :
        LET r == is_solved(o) IN
        /\ log' = Append(log, Check("is_solved", r))
        /\ IF r.k = "raise" THEN RaiseInTry(r.exc)
           ELSE Ends(Return(None))
    /\ UNCHANGED <<frame, audio_source, text_response, trVars, lastCall, otherVars, calls>>

\* line 103-104, and the fall off the end of the function
Solve_L103 ==
    /\ pc = "L103"
    /\ \E o \in SolvedObs :
        LET r == is_solved(o) IN
        /\ log' = Append(log, Check("is_solved", r))
        /\ IF r.k = "raise" THEN RaiseInTry(r.exc)
           ELSE IF r.v # "True"
           THEN RaiseInTry(Exc("Exception", <<"Failed to solve the captcha">>))
           ELSE Ends(Return(None))
    /\ UNCHANGED <<frame, audio_source, text_response, trVars, lastCall, otherVars, calls>>

----------------------------------------------------------------------------
(* The status checks, called by the caller on its own.  They take no part  *)
(* in solveCaptcha's state, so they are checked under a specification of    *)
(* their own, SpecChecks: the call and the page's observation are drawn at  *)
(* the start, and the action applies the function.                          *)

Query(role, ctx, r) == Ev("query_selector", get_selector(role), ctx, 0, <<>>, r.v, r)
Visible(ctx, r)     == Ev("is_visible", "", ctx, 0, <<>>, r.v, r)

\* lines 143-152 with a click on the checkbox before the checkmark is looked up
is_solved_calls_Click(o) ==
    LET iframe == wait_for_selector(o.iframe, TIMEOUT_SHORT)
        c1 == <<Lookup("iframe", "page", TIMEOUT_SHORT, iframe)>>
    IN
    IF iframe.k = "raise" \/ iframe.v = None THEN c1
    ELSE
    LET fr == content_frame(o.content)
        c2 == Append(c1, Enter("outer", fr))
    IN
    IF fr.k = "raise" \/ fr.v = None THEN c2
    ELSE
    LET checkmark == wait_for_selector(o.checkmark, TIMEOUT_SHORT)
        c3 == c2 \o <<Click("checkbox", "outer", Return(None)),
                      Lookup("checkmark", "outer", TIMEOUT_SHORT, checkmark)>>
    IN
    IF checkmark.k = "raise" \/ checkmark.v = None THEN c3
    ELSE Append(c3, ReadAttr("style", "outer", get_attribute(o.style)))

\* lines 143-152: the page calls is_solved makes, in order
is_solved_calls(o) ==
    LET iframe == wait_for_selector(o.iframe, TIMEOUT_SHORT)
        c1 == <<Lookup("iframe", "page", TIMEOUT_SHORT, iframe)>>
    IN
    IF iframe.k = "raise" \/ iframe.v = None THEN c1
    ELSE
    LET fr == content_frame(o.content)
        c2 == Append(c1, Enter("outer", fr))
    IN
    IF fr.k = "raise" \/ fr.v = None THEN c2
    ELSE
    LET checkmark == wait_for_selector(o.checkmark, TIMEOUT_SHORT)
        c3 == Append(c2, Lookup("checkmark", "outer", TIMEOUT_SHORT, checkmark))
    IN
    IF checkmark.k = "raise" \/ checkmark.v = None THEN c3
    ELSE Append(c3, ReadAttr("style", "outer", get_attribute(o.style)))

\* lines 159-168: the page calls is_detected makes, in order
is_detected_calls(o) ==
    LET challenge_frame == wait_for_selector(o.frame, TIMEOUT_DETECTION)
        c1 == <<Lookup("challenge_frame", "page", TIMEOUT_DETECTION, challenge_frame)>>
    IN
    IF challenge_frame.k = "raise" \/ challenge_frame.v = None THEN c1
    ELSE
    LET fr == content_frame(o.content)
        c2 == Append(c1, Enter("challenge", fr))
    IN
    IF fr.k = "raise" \/ fr.v = None THEN c2
    ELSE
    LET error_message == query_selector(o.query)
        c3 == Append(c2, Query("error_message", "challenge", error_message))
    IN
    IF error_message.k = "raise" \/ error_message.v = None THEN c3
    ELSE Append(c3, Visible("challenge", is_visible(o.visible)))

\* lines 175-184: the page calls get_token makes, in order
get_token_calls(o) ==
    LET challenge_frame == wait_for_selector(o.frame, DEFAULT_TIMEOUT)
        c1 == <<Lookup("challenge_frame", "page", DEFAULT_TIMEOUT, challenge_frame)>>
    IN
    IF challenge_frame.k = "raise" \/ challenge_frame.v = None THEN c1
    ELSE
    LET fr == content_frame(o.content)
        c2 == Append(c1, Enter("challenge", fr))
    IN
    IF fr.k = "raise" \/ fr.v = None THEN c2
    ELSE
    LET token_element == wait_for_selector(o.token, DEFAULT_TIMEOUT)
        c3 == Append(c2, Lookup("token", "challenge", DEFAULT_TIMEOUT, token_element))
    IN
    IF token_element.k = "raise" \/ token_element.v = None THEN c3
    ELSE Append(c3, ReadAttr("value", "challenge", get_attribute(o.value)))

PendingCall(fn, o) == [fn |-> fn, obs |-> o, res |-> NotEnded]

InitChecks ==
    /\ pc = "L50"
    /\ outcome = NotEnded
    /\ frame = None
    /\ audio_source = None
    /\ text_response = <<>>
    /\ log = <<>>
    /\ mp3_path = 0
    /\ wav_path = 0
    /\ fs = {}
    /\ tr_out = TrNone
    /\ rm_failed = {}
    /\ data = <<>>
    /\ o_pc = "idle"
    /\ o_mp3_path = 0
    /\ o_wav_path = 0
    /\ o_out = "none"
    /\ calls = <<>>
    /\ lastCall \in {PendingCall("is_solved", o) : o \in SolvedObs}
                    \cup {PendingCall("is_detected", o) : o \in DetectedObs}
                    \cup {PendingCall("get_token", o) : o \in TokenObs}

Call_is_solved ==
    /\ lastCall.fn = "is_solved"
    /\ lastCall.res = NotEnded
    /\ lastCall' = [lastCall EXCEPT !.res = is_solved(lastCall.obs)]
    /\ log' = log \o is_solved_calls(lastCall.obs)
    /\ UNCHANGED <<pc, outcome, frame, audio_source, text_response, trVars, otherVars, calls>>

Call_is_detected ==
    /\ lastCall.fn = "is_detected"
    /\ lastCall.res = NotEnded
    /\ lastCall' = [lastCall EXCEPT !.res = is_detected(lastCall.obs)]
    /\ log' = log \o is_detected_calls(lastCall.obs)
    /\ UNCHANGED <<pc, outcome, frame, audio_source, text_response, trVars, otherVars, calls>>

Call_get_token ==
    /\ lastCall.fn = "get_token"
    /\ lastCall.res = NotEnded
    /\ lastCall' = [lastCall EXCEPT !.res = get_token(lastCall.obs)]
    /\ log' = log \o get_token_calls(lastCall.obs)
    /\ UNCHANGED <<pc, outcome, frame, audio_source, text_response, trVars, otherVars, calls>>

----------------------------------------------------------------------------
(* A second transcription step on the same host (another solver instance,   *)
(* another process): the same code of lines 118-138 on its own locals, over  *)
(* the same directory.  It writes as writer 2; this run writes as writer 1.  *)

\* the second step's try body failed: its finally block runs
O_Fails ==
    /\ o_out' = "raise"
    /\ o_pc' = "O_L133_mp3"

\* lines 118-119
O_L118 ==
    /\ o_pc = "idle"
    /\ \E m \in 1..MaxSuffix, w \in 1..MaxSuffix :
        /\ o_mp3_path' = m
        /\ o_wav_path' = w
    /\ o_pc' = "O_L122"
    /\ UNCHANGED <<solveVars, trVars, o_out, lastCall, calls>>

\* line 122 writing to one fixed path, whatever line 118 chose
O_L122_FixedPath ==
    /\ o_pc = "O_L122"
    /\ \E o \in WriteObs \cup StallObs :
        /\ fs' = IF o \in {"fail_nofile", "stall"} THEN fs ELSE fs \cup {Mp3(1)}
        /\ data' = IF o \in {"fail_nofile", "stall"} THEN data
                   ELSE StoredAfterWrite(data, fs', Mp3(1), 2)
        /\ IF o = "ok" THEN o_pc' = "O_L123" /\ o_out' = o_out
           ELSE IF o = "stall" THEN o_pc' = "O_L122_blocked" /\ o_out' = o_out
           ELSE O_Fails
    /\ UNCHANGED <<solveVars, mp3_path, wav_path, tr_out, rm_failed,
                   o_mp3_path, o_wav_path, lastCall, calls>>

\* line 122
O_L122 ==
    /\ o_pc = "O_L122"
    /\ \E o \in WriteObs \cup StallObs :
        /\ fs' = IF o \in {"fail_nofile", "stall"} THEN fs ELSE fs \cup {Mp3(o_mp3_path)}
        /\ data' = IF o \in {"fail_nofile", "stall"} THEN data
                   ELSE StoredAfterWrite(data, fs', Mp3(o_mp3_path), 2)
        /\ IF o = "ok" THEN o_pc' = "O_L123" /\ o_out' = o_out
           ELSE IF o = "stall" THEN o_pc' = "O_L122_blocked" /\ o_out' = o_out
           ELSE O_Fails
    /\ UNCHANGED <<solveVars, mp3_path, wav_path, tr_out, rm_failed,
                   o_mp3_path, o_wav_path, lastCall, calls>>

\* line 123
O_L123 ==
    /\ o_pc = "O_L123"
    /\ \E o \in ReadObs :
        IF Mp3(o_mp3_path) \notin fs THEN O_Fails
        ELSE IF o = "ok" THEN o_pc' = "O_L124" /\ o_out' = o_out
        ELSE O_Fails
    /\ UNCHANGED <<solveVars, trVars, o_mp3_path, o_wav_path, lastCall, calls>>

\* line 124
O_L124 ==
    /\ o_pc = "O_L124"
    /\ \E o \in WriteObs :
        /\ fs' = IF o = "fail_nofile" THEN fs ELSE fs \cup {Wav(o_wav_path)}
        /\ data' = IF o = "fail_nofile" THEN data
                   ELSE StoredAfterWrite(data, fs', Wav(o_wav_path), 2)
        /\ IF o = "ok" THEN o_pc' = "O_L127" /\ o_out' = o_out
           ELSE O_Fails
    /\ UNCHANGED <<solveVars, mp3_path, wav_path, tr_out, rm_failed,
                   o_mp3_path, o_wav_path, lastCall, calls>>

\* lines 126-128
O_L127 ==
    /\ o_pc = "O_L127"
    /\ \E o \in ReadObs :
        IF Wav(o_wav_path) \notin fs THEN O_Fails
        ELSE IF o = "ok" THEN o_pc' = "O_L130" /\ o_out' = o_out
        ELSE O_Fails
    /\ UNCHANGED <<solveVars, trVars, o_mp3_path, o_wav_path, lastCall, calls>>

\* line 130: a text, an exception, or no answer
O_L130 ==
    /\ o_pc = "O_L130"
    /\ \/ \E k \in {"return", "raise"} : o_out' = k /\ o_pc' = "O_L133_mp3"
       \/ \E o \in StallObs : o_out' = o_out /\ o_pc' = "O_L130_blocked"
    /\ UNCHANGED <<solveVars, trVars, o_mp3_path, o_wav_path, lastCall, calls>>

\* line 133, first path of the loop
O_L133_mp3 ==
    /\ o_pc = "O_L133_mp3"
    /\ \E o \in RemoveObs :
        LET c == Cleanup(Mp3(o_mp3_path), o) IN
        /\ fs' = c.fs
        /\ data' = Stored(data, c.fs)
    /\ o_pc' = "O_L133_wav"
    /\ UNCHANGED <<solveVars, mp3_path, wav_path, tr_out, rm_failed,
                   o_mp3_path, o_wav_path, o_out, lastCall, calls>>

\* line 133, second path of the loop; the step is over
O_L133_wav ==
    /\ o_pc = "O_L133_wav"
    /\ \E o \in RemoveObs :
        LET c == Cleanup(Wav(o_wav_path), o) IN
        /\ fs' = c.fs
        /\ data' = Stored(data, c.fs)
    /\ o_pc' = "O_done"
    /\ UNCHANGED <<solveVars, mp3_path, wav_path, tr_out, rm_failed,
                   o_mp3_path, o_wav_path, o_out, lastCall, calls>>

\* what solveCaptcha has done when it reaches line 98 with every element found
LogAtL98 ==
    << Lookup("iframe", "page", TIMEOUT_STANDARD, Return(ElementHandle)),
       Enter("outer", Return(Frame)),
       Lookup("checkbox", "outer", TIMEOUT_STANDARD, Return(ElementHandle)),
       Click("checkbox", "outer", Return(None)),
       Check("is_solved", Return("False")),
       Lookup("challenge_frame", "page", TIMEOUT_STANDARD, Return(ElementHandle)),
       Enter("challenge", Return(Frame)),
       Lookup("audio_challenge", "challenge", TIMEOUT_STANDARD, Return(ElementHandle)),
       Click("audio_challenge", "challenge", Return(None)),
       Pause(PAUSE_AFTER_AUDIO_CLICK, Return(None)),
       Check("is_detected", Return("False")),
       Lookup("audio_source", "challenge", TIMEOUT_STANDARD, Return(ElementHandle)),
       ReadAttr("src", "challenge", Return(AudioUrl)) >>

\* solveCaptcha is about to call the transcription step (line 98); the second
\* instance has not started its own
InitConc ==
    /\ pc = "L98"
    /\ outcome = NotEnded
    /\ frame = "challenge"
    /\ audio_source = AudioUrl
    /\ text_response = <<>>
    /\ log = LogAtL98
    /\ mp3_path = 0
    /\ wav_path = 0
    /\ fs = {}
    /\ tr_out = TrNone
    /\ rm_failed = {}
    /\ data = <<>>
    /\ o_pc = "idle"
    /\ o_mp3_path = 0
    /\ o_wav_path = 0
    /\ o_out = "none"
    /\ calls = <<>>
    /\ lastCall = [fn |-> "none", obs |-> <<>>, res |-> NotEnded]

----------------------------------------------------------------------------
(* get_selector, called by a caller on its own *)

MaxCalls == 2

\* what a caller may pass: the ten roles, and names that are not roles
Names == Roles \cup {"", "Checkbox", "submit"}

Call_get_selector ==
    /\ Len(calls) < MaxCalls
    /\ \E name \in Names :
        calls' = Append(calls, [fn |-> "get_selector", arg |-> name,
                                res |-> Return(get_selector(name))])
    /\ UNCHANGED <<solveVars, trVars, otherVars, lastCall>>

----------------------------------------------------------------------------
Next ==
    \/ Solve_L50 \/ Solve_L55 \/ Solve_L60 \/ Solve_L61 \/ Solve_L64
    \/ Solve_L68 \/ Solve_L73 \/ Solve_L78 \/ Solve_L79 \/ Solve_L80 \/ Solve_L82
    \/ Solve_L87 \/ Solve_L94
    \/ Tr_L118 \/ Tr_L122 \/ Tr_L123 \/ Tr_L124 \/ Tr_L127 \/ Tr_L130
    \/ Tr_L133_mp3 \/ Tr_L133_wav
    \/ Solve_L98 \/ Solve_L99 \/ Solve_L100 \/ Solve_L101 \/ Solve_L103

\* one invocation of solveCaptcha()
Spec == Init /\ [][Next]_vars

NextConc ==
    \/ Tr_L118 \/ Tr_L122 \/ Tr_L123 \/ Tr_L124 \/ Tr_L127 \/ Tr_L130
    \/ Tr_L133_mp3 \/ Tr_L133_wav \/ Solve_L98
    \/ O_L118 \/ O_L122 \/ O_L123 \/ O_L124 \/ O_L127 \/ O_L130
    \/ O_L133_mp3 \/ O_L133_wav

\* line 98 of solveCaptcha, beside a second transcription step
SpecConc == InitConc /\ [][NextConc]_vars

NextSelector == Call_get_selector

\* a caller's calls of get_selector
SpecSelector == Init /\ [][NextSelector]_vars

NextChecks == Call_is_solved \/ Call_is_detected \/ Call_get_token

\* the caller's status checks
SpecChecks == InitChecks /\ [][NextChecks]_vars

----------------------------------------------------------------------------
(* Reading the run *)

Last(sq) == sq[Len(sq)]
Done     == pc = "done"

IsLookup(e, role) == e.op = "wait_for_selector" /\ e.sel = get_selector(role)
IsClick(e, role)  == e.op = "click" /\ e.sel = get_selector(role)
IsFill(e)         == e.op = "fill"
IsTranscribe(e)   == e.op = "_process_audio_challenge"
IsPause(e, ms)    == e.op = "wait_for_timeout" /\ e.ms = ms

\* the error kind of an exception that left solveCaptcha, read off its message
\* (every exception the code raises itself is a plain Exception)
ErrorKind(e) ==
    LET h == IF e.msg = <<>> THEN "" ELSE e.msg[1] IN
    IF e.type # "Exception" THEN e.type
    ELSE CASE h = "Audio challenge failed: "          -> "AudioChallengeFailed"
           [] h = "Captcha detected bot behavior"     -> "BotDetected"
           [] h = "Failed to solve the captcha"       -> "SolveFailed"
           [] h = "Audio source URL not found"        -> "MissingAudioSource"
           [] h = "Cannot find reCAPTCHA iframe"      -> "ElementNotFound"
           [] h = "Cannot find challenge iframe"      -> "ElementNotFound"
           [] h = "Cannot find audio source element"  -> "ElementNotFound"
           [] h = "Cannot access iframe content"      -> "FrameAccessError"
           [] h = "Cannot access challenge iframe"    -> "FrameAccessError"
           [] OTHER                                   -> "Exception"

\* nothing of the audio path is in the run
NoAudioPath ==
    \A j \in DOMAIN log :
        /\ ~IsLookup(log[j], "challenge_frame")
        /\ ~IsClick(log[j], "audio_challenge")
        /\ ~IsTranscribe(log[j])
        /\ ~IsFill(log[j])
        /\ ~IsClick(log[j], "verify_button")

\* nothing from the audio-source lookup on is in the run
NoAudioSourceSteps ==
    \A j \in DOMAIN log :
        /\ ~IsLookup(log[j], "audio_source")
        /\ ~IsTranscribe(log[j])
        /\ ~IsFill(log[j])
        /\ ~IsClick(log[j], "verify_button")

----------------------------------------------------------------------------
(* C1: when the is_solved() check made right after the checkbox click       *)
(* returns true, solveCaptcha returns at once: the run ends with that check, *)
(* the result is a normal return, and the run holds no wait for the         *)
(* challenge frame, no audio-mode click, no transcription, no fill and no    *)
(* verify click.                                                            *)
C1_CheckboxPass ==
    \A i \in DOMAIN log :
        (/\ i > 1
         /\ log[i].op = "is_solved" /\ log[i].ret = "True"
         /\ IsClick(log[i - 1], "checkbox"))
        => /\ Done
           /\ outcome = Return(None)
           /\ Len(log) = i
           /\ NoAudioPath

C1_Witness ==
    /\ Done
    /\ Len(log) > 1
    /\ Last(log).op = "is_solved" /\ Last(log).ret = "True"
    /\ IsClick(log[Len(log) - 1], "checkbox") /\ log[Len(log) - 1].ok

(* C2: when is_detected() returns true right after the audio-mode click and *)
(* the 300 ms pause, solveCaptcha raises the bot-detection exception itself, *)
(* not wrapped by the handler of line 106, and the run ends there: no       *)
(* audio-source lookup, no transcription, no fill, no verify click.         *)
C2_BotDetected ==
    \A i \in DOMAIN log :
        (/\ i > 2
         /\ log[i].op = "is_detected" /\ log[i].ret = "True"
         /\ IsPause(log[i - 1], PAUSE_AFTER_AUDIO_CLICK)
         /\ IsClick(log[i - 2], "audio_challenge"))
        => /\ Done
           /\ outcome.k = "raise"
           /\ ErrorKind(outcome.exc) = "BotDetected"
           /\ outcome.exc.context = <<>>
           /\ Len(log) = i
           /\ NoAudioSourceSteps

C2_Witness ==
    /\ Done
    /\ Len(log) > 2
    /\ Last(log).op = "is_detected" /\ Last(log).ret = "True"
    /\ IsPause(log[Len(log) - 1], PAUSE_AFTER_AUDIO_CLICK)
    /\ IsClick(log[Len(log) - 2], "audio_challenge")
    /\ outcome.k = "raise"

(* C3: for every text T the transcription returns, the next call fills the  *)
(* response field with T lower-cased (same length, same letters, no upper-  *)
(* case letter left), and the calls that follow are, in this order, the     *)
(* verify click, the 400 ms pause and the second is_solved() check; a        *)
(* second is_solved() check is never made before a verify click was done.   *)
UpperChars == {"A"}
SameLetter(c, d) == c = d \/ {c, d} = {"A", "a"}
LowerCaseOf(t, T) ==
    /\ Len(t) = Len(T)
    /\ \A i \in 1..Len(T) : SameLetter(t[i], T[i]) /\ t[i] \notin UpperChars

C3_FillLowerThenVerify ==
    /\ \A i \in DOMAIN log :
        (log[i].op = "transcribed" /\ log[i].ok)
        => /\ Len(log) >= i + 1 =>
                /\ IsFill(log[i + 1])
                /\ log[i + 1].sel = get_selector("audio_response")
                /\ LowerCaseOf(log[i + 1].text, log[i].text)
           /\ Len(log) >= i + 2 => IsClick(log[i + 2], "verify_button") /\ log[i + 1].ok
           /\ Len(log) >= i + 3 => IsPause(log[i + 3], PAUSE_AFTER_VERIFY) /\ log[i + 2].ok
           /\ Len(log) >= i + 4 => log[i + 4].op = "is_solved" /\ log[i + 3].ok
           /\ Len(log) = i => pc = "L99"
    /\ \A j \in DOMAIN log :
        (log[j].op = "is_solved" /\ \E h \in 1..(j - 1) : log[h].op = "is_solved")
        => \E k \in 1..(j - 1) : IsClick(log[k], "verify_button") /\ log[k].ok

C3_Witness ==
    /\ Done
    /\ Len(log) > 4
    /\ Last(log).op = "is_solved"
    /\ log[Len(log) - 4].op = "transcribed"
    /\ \E i \in DOMAIN log[Len(log) - 4].text : log[Len(log) - 4].text[i] \in UpperChars
    /\ IsFill(log[Len(log) - 3])

(* C4: once the audio-source lookup has started, every failure reaches the  *)
(* caller as an "Audio challenge failed: ..." exception that carries the    *)
(* original failure's message after the prefix (the original is its         *)
(* context); a run that got that far ends in no other way, except by the    *)
(* normal return after a true is_solved().                                  *)
AudioLookupStarted == \E j \in DOMAIN log : IsLookup(log[j], "audio_source")

C4_WrappedAsAudioChallengeFailed ==
    (Done /\ AudioLookupStarted)
    => \/ /\ outcome = Return(None)
          /\ Last(log).op = "is_solved" /\ Last(log).ret = "True"
       \/ /\ outcome.k = "raise"
          /\ ErrorKind(outcome.exc) = "AudioChallengeFailed"
          /\ Len(outcome.exc.context) = 1
          /\ outcome.exc.msg = <<"Audio challenge failed: ">> \o outcome.exc.context[1].msg
          \* the original is the failed call's exception, or one the code raised itself
          /\ (outcome.exc.context[1].type = "Exception") <=> Last(log).ok

C4_Witness ==
    /\ Done
    /\ AudioLookupStarted
    /\ outcome.k = "raise"
    /\ Last(log).op = "transcribed"
    /\ outcome.exc.context[1].type = "RequestError"

(* C5 as stated: when the is_solved() check made after the verify click and *)
(* the pause returns false, the error that leaves solveCaptcha is of kind    *)
(* SolveFailed.                                                             *)
SecondCheckFalse ==
    /\ Len(log) > 2
    /\ Last(log).op = "is_solved" /\ Last(log).ret = "False"
    /\ IsPause(log[Len(log) - 1], PAUSE_AFTER_VERIFY)
    /\ IsClick(log[Len(log) - 2], "verify_button")

C5_Orig_SolveFailedKind ==
    SecondCheckFalse => (Done /\ outcome.k = "raise" /\ ErrorKind(outcome.exc) = "SolveFailed")

(* C5, amended: when the is_solved() check made after the verify click and  *)
(* the pause returns false, solveCaptcha raises "Failed to solve the         *)
(* captcha" inside the try block, and what leaves it is the "Audio challenge *)
(* failed: ..." exception carrying that message.                            *)
C5_SolveFailedWrapped ==
    SecondCheckFalse
    => /\ Done
       /\ outcome.k = "raise"
       /\ ErrorKind(outcome.exc) = "AudioChallengeFailed"
       /\ outcome.exc.msg = <<"Audio challenge failed: ", "Failed to solve the captcha">>
       /\ Len(outcome.exc.context) = 1
       /\ ErrorKind(outcome.exc.context[1]) = "SolveFailed"

C5_Witness == SecondCheckFalse /\ Done /\ outcome.k = "raise"

(* C6 as stated: when the audio-source element is found and its src          *)
(* attribute is empty or absent, the error that leaves solveCaptcha is of    *)
(* kind MissingAudioSource, and the run holds no transcription, no fill and  *)
(* no verify click.                                                         *)
SrcMissing ==
    /\ Len(log) > 1
    /\ Last(log).op = "get_attribute" /\ Last(log).sel = "src"
    /\ Last(log).ok /\ Falsy(Last(log).ret)
    /\ IsLookup(log[Len(log) - 1], "audio_source")

NoTranscriptionFillVerify ==
    \A j \in DOMAIN log :
        ~IsTranscribe(log[j]) /\ ~IsFill(log[j]) /\ ~IsClick(log[j], "verify_button")

C6_Orig_MissingAudioSourceKind ==
    SrcMissing
    => /\ Done /\ outcome.k = "raise"
       /\ ErrorKind(outcome.exc) = "MissingAudioSource"
       /\ NoTranscriptionFillVerify

(* C6, amended: when the audio-source element is found and its src attribute *)
(* is empty or absent, solveCaptcha raises "Audio source URL not found"      *)
(* inside the try block, what leaves it is the "Audio challenge failed: ..." *)
(* exception carrying that message, and the run holds no transcription, no   *)
(* fill and no verify click.                                                *)
C6_MissingAudioSourceWrapped ==
    /\ SrcMissing
       => /\ Done
          /\ outcome.k = "raise"
          /\ ErrorKind(outcome.exc) = "AudioChallengeFailed"
          /\ outcome.exc.msg = <<"Audio challenge failed: ", "Audio source URL not found">>
          /\ Len(outcome.exc.context) = 1
          /\ ErrorKind(outcome.exc.context[1]) = "MissingAudioSource"
          /\ NoTranscriptionFillVerify
    \* no src read with an empty or absent value is ever followed by another call
    /\ \A i \in DOMAIN log :
        (log[i].op = "get_attribute" /\ log[i].ok /\ Falsy(log[i].ret)) => Len(log) = i

C6_Witness == SrcMissing /\ Last(log).ret = "" /\ Done /\ outcome.k = "raise"

(* C7 as stated: when the transcription step is over, neither of its two    *)
(* temporary files exists.                                                  *)
StepOver == pc = "L98_back"

C7_Orig_NoTempFileLeft ==
    StepOver => (Mp3(mp3_path) \notin fs /\ Wav(wav_path) \notin fs)

(* C7, amended: when the transcription step is over, whether it returns a   *)
(* text or raises, each of its two temporary files either does not exist or  *)
(* is one whose os.remove raised OSError; and the finally block leaves the   *)
(* step's pending result (the text or the exception) as it was.             *)
C7_TempFilesRemovedUnlessRemoveFails ==
    /\ [](StepOver =>
            \A p \in {Mp3(mp3_path), Wav(wav_path)} : p \in fs => p \in rm_failed)
    /\ [][(pc = "L133_mp3" \/ pc = "L133_wav") => (tr_out' = tr_out)]_vars

C7_Witness ==
    /\ StepOver
    /\ tr_out.k = "raise" /\ tr_out.exc.type = "RequestError"
    /\ Mp3(mp3_path) \notin fs
    /\ Wav(wav_path) \in fs /\ Wav(wav_path) \in rm_failed

----------------------------------------------------------------------------
(* The status checks, read from the observation alone *)

LookupFinds(o, timeout) == o.fault = "none" /\ o.at <= timeout
LookupFails(o, timeout) == o.fault = "error" \/ o.at > timeout

\* a lookup, frame entry, attribute read or visibility check inside the call fails
SolvedFailure(o) ==
    \/ LookupFails(o.iframe, TIMEOUT_SHORT)
    \/ /\ LookupFinds(o.iframe, TIMEOUT_SHORT)
       /\ \/ o.content = "error"
          \/ /\ o.content = "frame"
             /\ \/ LookupFails(o.checkmark, TIMEOUT_SHORT)
                \/ LookupFinds(o.checkmark, TIMEOUT_SHORT) /\ o.style = "error"

DetectedFailure(o) ==
    \/ LookupFails(o.frame, TIMEOUT_DETECTION)
    \/ /\ LookupFinds(o.frame, TIMEOUT_DETECTION)
       /\ \/ o.content = "error"
          \/ /\ o.content = "frame"
             /\ \/ o.query = "error"
                \/ o.query = "found" /\ o.visible = "error"

TokenFailure(o) ==
    \/ LookupFails(o.frame, DEFAULT_TIMEOUT)
    \/ /\ LookupFinds(o.frame, DEFAULT_TIMEOUT)
       /\ \/ o.content = "error"
          \/ /\ o.content = "frame"
             /\ \/ LookupFails(o.token, DEFAULT_TIMEOUT)
                \/ LookupFinds(o.token, DEFAULT_TIMEOUT) /\ o.value = "error"

CallOver == lastCall.res # NotEnded

(* C8: is_solved(), is_detected() and get_token() never raise: each call    *)
(* returns, and when a lookup (a timeout included), a frame entry, an        *)
(* attribute read or the visibility check inside it fails, is_solved() and   *)
(* is_detected() return False and get_token() returns None.                 *)
C8_ChecksNeverRaise ==
    CallOver
    => /\ lastCall.res.k = "return"
       /\ (lastCall.fn = "is_solved" /\ SolvedFailure(lastCall.obs))
            => lastCall.res.v = "False"
       /\ (lastCall.fn = "is_detected" /\ DetectedFailure(lastCall.obs))
            => lastCall.res.v = "False"
       /\ (lastCall.fn = "get_token" /\ TokenFailure(lastCall.obs))
            => lastCall.res.v = None

C8_Witness ==
    /\ CallOver
    /\ lastCall.fn = "get_token"
    /\ LookupFinds(lastCall.obs.frame, DEFAULT_TIMEOUT)
    /\ lastCall.obs.content = "error"
    /\ lastCall.res = Return(None)

(* C9 as stated: is_solved() returns True only if the checkmark is found    *)
(* and its style attribute is non-empty.                                    *)
C9_Orig_StyleNonEmpty ==
    (CallOver /\ lastCall.fn = "is_solved" /\ lastCall.res = Return("True"))
    => /\ LookupFinds(lastCall.obs.checkmark, TIMEOUT_SHORT)
       /\ lastCall.obs.style = "set"

(* C9, amended: is_solved() returns True exactly when the outer frame is    *)
(* found and entered, the checkmark is found, and the checkmark has a style  *)
(* attribute, whatever its value: True when the attribute is present but     *)
(* empty, False when it is absent.                                          *)
C9_StylePresent ==
    (CallOver /\ lastCall.fn = "is_solved")
    => /\ lastCall.res \in {Return("True"), Return("False")}
       /\ lastCall.res = Return("True")
            <=> /\ LookupFinds(lastCall.obs.iframe, TIMEOUT_SHORT)
                /\ lastCall.obs.content = "frame"
                /\ LookupFinds(lastCall.obs.checkmark, TIMEOUT_SHORT)
                /\ lastCall.obs.style \in {"empty", "set"}

C9_Witness ==
    /\ CallOver
    /\ lastCall.fn = "is_solved"
    /\ lastCall.obs.style = "empty"
    /\ lastCall.res = Return("True")

(* C10: is_detected() returns True exactly when the challenge frame is      *)
(* found within TIMEOUT_DETECTION, its content frame is entered, and the     *)
(* query finds an error-message element that is visible; otherwise (frame    *)
(* never there, element absent, element not visible) it returns False.      *)
C10_DetectedIffVisibleMarker ==
    (CallOver /\ lastCall.fn = "is_detected")
    => /\ lastCall.res \in {Return("True"), Return("False")}
       /\ lastCall.res = Return("True")
            <=> /\ LookupFinds(lastCall.obs.frame, TIMEOUT_DETECTION)
                /\ lastCall.obs.content = "frame"
                /\ lastCall.obs.query = "found"
                /\ lastCall.obs.visible = "visible"

C10_Witness ==
    /\ CallOver
    /\ lastCall.fn = "is_detected"
    /\ lastCall.obs.query = "found"
    /\ lastCall.res = Return("True")

----------------------------------------------------------------------------
(* C11: within one solveCaptcha() run nothing is tried twice: at most one   *)
(* checkbox click, one audio-mode click, one transcription call, one fill    *)
(* and one verify click; a call that raised is the last call of the run, and *)
(* once the run has raised, no call is added to it.                         *)
CallsThat(P(_)) == {i \in DOMAIN log : P(log[i])}
IsCheckboxClick(e) == IsClick(e, "checkbox")
IsAudioClick(e)    == IsClick(e, "audio_challenge")
IsVerifyClick(e)   == IsClick(e, "verify_button")

C11_NothingRetried ==
    /\ [](/\ Cardinality(CallsThat(IsCheckboxClick)) <= 1
          /\ Cardinality(CallsThat(IsAudioClick)) <= 1
          /\ Cardinality(CallsThat(IsTranscribe)) <= 1
          /\ Cardinality(CallsThat(IsFill)) <= 1
          /\ Cardinality(CallsThat(IsVerifyClick)) <= 1
          /\ \A i \in DOMAIN log :
                ~log[i].ok => (i = Len(log) /\ Done /\ outcome.k = "raise")
          /\ outcome.k = "raise" => Done)
    /\ [][(outcome.k = "raise") => (log' = log /\ outcome' = outcome)]_vars

C11_Witness ==
    /\ Done
    /\ outcome.k = "raise"
    /\ IsVerifyClick(Last(log)) /\ ~Last(log).ok
    /\ Cardinality(CallsThat(IsCheckboxClick)) = 1
    /\ Cardinality(CallsThat(IsAudioClick)) = 1
    /\ Cardinality(CallsThat(IsTranscribe)) = 1
    /\ Cardinality(CallsThat(IsFill)) = 1

----------------------------------------------------------------------------
(* The state machine of solveCaptcha, read off the run: which calls were    *)
(* made and how the run ended.  A run that ends with an error other than     *)
(* the two terminal failures leaves the machine ("Error").                  *)
IsSolvedCheck(e) == e.op = "is_solved"

EndedDetected ==
    Len(log) > 0 /\ Last(log).op = "is_detected" /\ Last(log).ret = "True"

SMState ==
    IF outcome.k = "return" THEN "Solved"
    ELSE IF outcome.k = "raise"
         THEN IF EndedDetected THEN "Detected"
              ELSE IF SecondCheckFalse THEN "SolveFailed"
              ELSE "Error"
    ELSE IF \E i \in DOMAIN log : IsVerifyClick(log[i]) /\ log[i].ok THEN "AudioSubmitted"
    ELSE IF CallsThat(IsSolvedCheck) # {} THEN "AudioChallengeActive"
    ELSE IF \E i \in DOMAIN log : IsCheckboxClick(log[i]) /\ log[i].ok THEN "CheckboxClicked"
    ELSE "Start"

SMEdges ==
    {<<"Start", "CheckboxClicked">>,
     <<"CheckboxClicked", "Solved">>,
     <<"CheckboxClicked", "AudioChallengeActive">>,
     <<"AudioChallengeActive", "Detected">>,
     <<"AudioChallengeActive", "AudioSubmitted">>,
     <<"AudioSubmitted", "Solved">>,
     <<"AudioSubmitted", "SolveFailed">>}

SMTerminal == {"Solved", "Detected", "SolveFailed", "Error"}
SMAborts   == {<<s, "Error">> : s \in {"Start", "CheckboxClicked", "AudioChallengeActive",
                                       "AudioSubmitted"}}

\* the most recent is_solved() check of the run returned True
LastSolvedCheckTrue ==
    /\ CallsThat(IsSolvedCheck) # {}
    /\ \E i \in CallsThat(IsSolvedCheck) :
        /\ \A j \in CallsThat(IsSolvedCheck) : j <= i
        /\ log[i].ret = "True"

(* C12: every step of a run stays in its state, follows an edge of the      *)
(* state machine, or leaves it with an error from a state that is not        *)
(* terminal; no step leaves a terminal state; and a run that is over         *)
(* returned normally exactly when its most recent is_solved() check          *)
(* returned True, so never from Detected or SolveFailed.                    *)
C12_StateMachine ==
    /\ [][\/ SMState' = SMState
          \/ <<SMState, SMState'>> \in SMEdges \cup SMAborts]_vars
    /\ [][(SMState \in SMTerminal) => FALSE]_vars
    /\ [](Done <=> SMState \in SMTerminal)
    /\ [](Done => ((outcome.k = "return") <=> LastSolvedCheckTrue))

C12_Witness ==
    /\ Done
    /\ outcome.k = "return"
    /\ SMState = "Solved"
    /\ \E i \in DOMAIN log : IsVerifyClick(log[i])

----------------------------------------------------------------------------
(* C13: when the lookup of the outer frame (line 50) or of the challenge    *)
(* frame (line 68) does not give the frame within TIMEOUT_STANDARD (the      *)
(* lookup times out, or resolves to None), solveCaptcha ends there with a    *)
(* lookup failure that is not wrapped: the library's timeout error for that  *)
(* timeout, or the "Cannot find ... iframe" exception.  For the outer frame  *)
(* no click was made before; for the challenge frame no audio-mode click.    *)
FrameNotFound(e, role) ==
    /\ IsLookup(e, role)
    /\ e.ctx = "page"
    /\ e.ms = TIMEOUT_STANDARD
    /\ e.err = "TimeoutError" \/ (e.ok /\ e.ret = None)

\* a lookup failure: the element was not there within the timeout
IsElementNotFound(e) ==
    \/ e = TimeoutError(TIMEOUT_STANDARD)
    \/ ErrorKind(e) = "ElementNotFound" /\ e.context = <<>>

----------------------------------------------------------------------------
(* C14 (as stated): every run of solveCaptcha ends: in every state the run  *)
(* has ended or has a next step to take.  urlretrieve (line 122) and        *)
(* recognize_google (line 130) are called without a timeout, so a run can   *)
(* stay inside either call forever.                                          *)
C14_Orig_AlwaysTerminates == Done \/ ENABLED Next

----------------------------------------------------------------------------
(* C15: the transcription step takes no lock and draws its temporary paths  *)
(* from randrange(1, 1000) (lines 118-119), so two transcription steps on   *)
(* the same host can hold the same path.  Whenever this run is about to     *)
(* read one of its temporary files (line 123 the mp3, line 127 the wav) and *)
(* the file is gone or holds the other run's bytes, the other run holds the *)
(* same path; and such a state is reachable.                                 *)
Harmed(p) == p \notin fs \/ data[p] # 1

C15_SharedTempPath ==
    /\ (pc = "L123" /\ Harmed(Mp3(mp3_path))) => o_mp3_path = mp3_path
    /\ (pc = "L127" /\ Harmed(Wav(wav_path))) => o_wav_path = wav_path

C15_Witness ==
    /\ pc = "L123"
    /\ o_mp3_path = mp3_path
    /\ Mp3(mp3_path) \in fs
    /\ data[Mp3(mp3_path)] = 2

----------------------------------------------------------------------------
(* C16 (as stated): an empty transcription comes out as a failure: the      *)
(* empty string is never filled into the response field, and the verify     *)
(* button is never clicked after an empty transcription.  Line 98 takes     *)
(* whatever recognize_google returned and line 99 fills it, without a test. *)
IsEmptyTranscription(e) == e.op = "transcribed" /\ e.ok /\ e.text = <<>>

C16_Orig_EmptyTranscriptionFails ==
    /\ \A i \in DOMAIN log : IsFill(log[i]) => log[i].text # <<>>
    /\ \A i \in DOMAIN log :
        IsEmptyTranscription(log[i])
            => /\ \A j \in DOMAIN log : j > i => ~IsVerifyClick(log[j])
               /\ Done => outcome.k = "raise"

----------------------------------------------------------------------------
(* C18 (as stated): when the transcription step fails, solveCaptcha ends    *)
(* with an audio-challenge failure, nothing was filled and verify was not   *)
(* clicked, and both temporary files are gone.                               *)
TranscriptionFailed ==
    /\ Done
    /\ Len(log) > 0
    /\ Last(log).op = "transcribed"
    /\ ~Last(log).ok

C18_Orig_FailureCleansUp ==
    TranscriptionFailed
        => /\ outcome.k = "raise"
           /\ ErrorKind(outcome.exc) = "AudioChallengeFailed"
           /\ \A i \in DOMAIN log : ~IsFill(log[i]) /\ ~IsVerifyClick(log[i])
           /\ fs = {}

(* C18: when the transcription step fails, solveCaptcha ends with an        *)
(* audio-challenge failure, nothing was filled and verify was not clicked,  *)
(* and the finally block has run by then: each temporary file is gone       *)
(* unless its os.remove failed.                                              *)
C18_FailureCleansUpUnlessRemoveFails ==
    TranscriptionFailed
        => /\ outcome.k = "raise"
           /\ ErrorKind(outcome.exc) = "AudioChallengeFailed"
           /\ \A i \in DOMAIN log : ~IsFill(log[i]) /\ ~IsVerifyClick(log[i])
           /\ fs \subseteq rm_failed

C18_Witness ==
    /\ TranscriptionFailed
    /\ Last(log).err = "CouldntDecodeError"
    /\ fs = {}
    /\ rm_failed = {}

----------------------------------------------------------------------------
(* C20: the checkbox click is made on the outer frame; the audio-mode       *)
(* click, the audio-source lookup, the fill and the verify click are made   *)
(* on the challenge frame; and a frame is used only after its lookup found  *)
(* it and content_frame() gave it, both earlier in the run.                  *)
IsEnter(e, ctx) == e.op = "content_frame" /\ e.ctx = ctx

\* the frame `ctx` was looked up under `role` and entered before call i
FoundAndEntered(role, ctx, i) ==
    \E j, k \in 1..(i - 1) :
        /\ j < k
        /\ IsLookup(log[j], role) /\ log[j].ctx = "page" /\ log[j].ok /\ log[j].ret # None
        /\ IsEnter(log[k], ctx) /\ log[k].ok /\ log[k].ret # None

\* a call made on the frame `ctx` (content_frame is the call that gives it)
UsesFrame(e, ctx) == e.ctx = ctx /\ ~IsEnter(e, ctx)

OnChallengeFrame(e) ==
    \/ IsAudioClick(e)
    \/ IsLookup(e, "audio_source")
    \/ IsFill(e)
    \/ IsVerifyClick(e)

C20_FrameContexts ==
    \A i \in DOMAIN log :
        /\ IsCheckboxClick(log[i]) => log[i].ctx = "outer"
        /\ OnChallengeFrame(log[i]) => log[i].ctx = "challenge"
        /\ UsesFrame(log[i], "outer") => FoundAndEntered("iframe", "outer", i)
        /\ UsesFrame(log[i], "challenge") => FoundAndEntered("challenge_frame", "challenge", i)

C20_Witness ==
    /\ Len(log) > 0
    /\ IsVerifyClick(Last(log))
    /\ Last(log).ctx = "challenge"
    /\ \E i \in DOMAIN log : IsCheckboxClick(log[i]) /\ log[i].ctx = "outer"

----------------------------------------------------------------------------
(* C19: is_solved, is_detected and get_token only read the page: the page   *)
(* calls one of them makes are lookups, content_frame(), attribute reads,   *)
(* query_selector and the visibility check, never a click or a fill; the    *)
(* calls made before stay as they were; each call starts from a fresh       *)
(* lookup of its frame on the page; and nothing of the solver is written.   *)
ReadOnlyOps ==
    {"wait_for_selector", "content_frame", "get_attribute", "query_selector", "is_visible"}

Actions(sq) == SelectSeq(sq, LAMBDA e : e.op \in {"click", "fill"})

C19_ChecksReadOnly ==
    /\ [][/\ Len(log') >= Len(log)
          /\ SubSeq(log', 1, Len(log)) = log
          /\ \A i \in (Len(log) + 1)..Len(log') : log'[i].op \in ReadOnlyOps
          /\ Actions(log') = Actions(log)
          /\ <<pc, outcome, frame, audio_source, text_response>>'
                = <<pc, outcome, frame, audio_source, text_response>>
          /\ <<trVars, otherVars, calls>>' = <<trVars, otherVars, calls>>]_vars
    /\ [](CallOver =>
            /\ Len(log) > 0
            /\ log[1].op = "wait_for_selector"
            /\ log[1].ctx = "page"
            /\ \A i \in DOMAIN log : i > 1 /\ log[i].op # "content_frame"
                                       => log[i].ctx # "page")

C19_Witness ==
    /\ CallOver
    /\ lastCall.fn = "is_solved"
    /\ lastCall.res = Return("True")
    /\ Len(log) = 4
    /\ Last(log).op = "get_attribute"

----------------------------------------------------------------------------
(* C17: get_selector is total: a name that is not one of the ten roles      *)
(* gives the empty string and never raises; each of the ten roles gives the *)
(* same non-empty expression at every call.                                  *)
C17_SelectorTotal ==
    /\ Cardinality(Roles) = 10
    /\ \A i \in DOMAIN calls :
        /\ calls[i].res.k = "return"
        /\ calls[i].arg \notin Roles => calls[i].res.v = ""
        /\ calls[i].arg \in Roles
            => /\ calls[i].res.v # ""
               /\ calls[i].res.v = selectors[calls[i].arg]
               /\ \A j \in DOMAIN calls :
                    calls[j].arg = calls[i].arg => calls[j].res = calls[i].res

C17_Witness ==
    /\ Len(calls) = 2
    /\ calls[1].arg = "submit"
    /\ calls[1].res = Return("")
    /\ calls[2].arg = "verify_button"
    /\ calls[2].res = Return("#recaptcha-verify-button")

====
